---- MODULE Spec2Model ----
(***************************************************************************)
(* bgpdash: the BGP service of pkg/bgp_engine.go (Start, AddNeighbor,      *)
(* MonitorPrefixes and its per-path callback that builds one               *)
(* BGPUpdateMessage from an api.Path and logs it), driven by cmd/main.go.  *)
(***************************************************************************)
EXTENDS Integers, Sequences, FiniteSets, TLC

(***************************************************************************)
(* Bounds of the model.                                                    *)
(***************************************************************************)
\* longest attribute list (path.Pattrs) of a delivered path
MaxAttrs == 2
\* most paths (table.Paths) in one delivered table event
MaxPaths == 2
\* most invocations of the callback in flight at once
NumCallbacks == 2

(***************************************************************************)
(* Go values.  A pointer or a nil-able slice is an option: nil is the      *)
(* empty sequence, a present value v is the one-element sequence <<v>>, so *)
(* that a present zero is distinct from nil.                               *)
(***************************************************************************)
nil == <<>>
Some(v) == <<v>>

\* const block of bgp_engine.go
RpkiValid == 0
RpkiNotFound == 1
RpkiInvalid == 2

\* uint8(x) of a uint32
Uint8(x) == x % 256

\* a net.IP holding an IPv4 address: the 16-byte IPv4-in-IPv6 form that
\* net.ParseIP returns
V4(a, b, c, d) == <<0, 0, 0, 0, 0, 0, 0, 0, 0, 0, 255, 255, a, b, c, d>>

\* net.ParseIP: the address a text denotes, nil when it denotes none
ParseIP(s) ==
    CASE s = "10.0.0.1" -> Some(V4(10, 0, 0, 1))
      [] s = "10.0.0.0" -> Some(V4(10, 0, 0, 0))
      [] s = "192.168.1.89" -> Some(V4(192, 168, 1, 89))
      [] s = "2001:db8::" -> Some(<<32, 1, 13, 184, 0, 0, 0, 0, 0, 0, 0, 0, 0, 0, 0, 0>>)
      [] s = "2001:db8::1" -> Some(<<32, 1, 13, 184, 0, 0, 0, 0, 0, 0, 0, 0, 0, 0, 0, 1>>)
      [] OTHER -> nil

\* fmt.Sprintf("%d:%d", asn, local)
Sprintf(asn, local) == ToString(asn) \o ":" \o ToString(local)

(***************************************************************************)
(* anypb.Any records.  typeUrl names the message the record holds ("" for  *)
(* a nil *anypb.Any), ok tells whether its bytes decode as that message,   *)
(* and the remaining fields are the decoded message.                       *)
(* attr.UnmarshalTo(m) returns nil exactly when the record's type is m's   *)
(* type and its bytes decode.                                              *)
(***************************************************************************)
UnmarshalTo(attr, kind) == attr.typeUrl = kind /\ attr.ok

\* the kinds the callback tries on every attribute, in the order it tries them
KnownKinds ==
    << "NextHopAttribute", "OriginAttribute", "MultiExitDiscAttribute",
       "LocalPrefAttribute", "AggregatorAttribute", "CommunitiesAttribute",
       "ExtendedCommunitiesAttribute", "LargeCommunitiesAttribute",
       "AsPathAttribute" >>

(***************************************************************************)
(* The attribute records the engine delivers in path.Pattrs.               *)
(***************************************************************************)
NextHopAttrs ==
    { [typeUrl |-> "NextHopAttribute", ok |-> TRUE, NextHop |-> "10.0.0.1"] }

\* api.OriginAttribute.Origin is a uint32
OriginAttrs ==
    { [typeUrl |-> "OriginAttribute", ok |-> TRUE, Origin |-> o] : o \in {0, 257} }

MedAttrs ==
    { [typeUrl |-> "MultiExitDiscAttribute", ok |-> TRUE, Med |-> 0] }

LocalPrefAttrs ==
    { [typeUrl |-> "LocalPrefAttribute", ok |-> TRUE, LocalPref |-> 100] }

AggregatorAttrs ==
    { [typeUrl |-> "AggregatorAttribute", ok |-> TRUE, Asn |-> 0, Address |-> "10.0.0.1"],
      [typeUrl |-> "AggregatorAttribute", ok |-> TRUE, Asn |-> 65001, Address |-> "not-an-ip"] }

CommunitiesAttrs ==
    { [typeUrl |-> "CommunitiesAttribute", ok |-> TRUE, Communities |-> c] :
        c \in { <<131082>>, <<65546, 0>> } }

\* each extended community is itself a *anypb.Any: nil, or its Value bytes
ExtendedCommunitiesAttrs ==
    { [typeUrl |-> "ExtendedCommunitiesAttribute", ok |-> TRUE,
       ExtCommunities |-> << Some(<<0, 2, 253, 233, 0, 0, 0, 100>>), nil >>] }

LargeCommunitiesAttrs ==
    { [typeUrl |-> "LargeCommunitiesAttribute", ok |-> TRUE,
       LargeCommunities |-> << [GlobalAdmin |-> 65001, LocalData1 |-> 0, LocalData2 |-> 7] >>] }

AsPathAttrs ==
    { [typeUrl |-> "AsPathAttribute", ok |-> TRUE, Segments |-> s] :
        s \in { << [Numbers |-> <<65001, 65002>>], [Numbers |-> <<65003>>] >>,
                << [Numbers |-> <<>>], [Numbers |-> <<65002, 65001>>] >> } }

\* multiprotocol reachability of the event (api.MpReachNLRIAttribute and
\* api.MpUnreachNLRIAttribute travel in path.Pattrs)
MpReachAttrs ==
    { [typeUrl |-> "MpReachNLRIAttribute", ok |-> TRUE,
       Family |-> [Afi |-> 2, Safi |-> 1], NextHops |-> <<"2001:db8::1">>,
       Nlris |-> << [PrefixLen |-> 32, Prefix |-> "2001:db8::"] >>] }

MpUnreachAttrs ==
    { [typeUrl |-> "MpUnreachNLRIAttribute", ok |-> TRUE,
       Family |-> [Afi |-> 2, Safi |-> 1],
       Nlris |-> << [PrefixLen |-> 32, Prefix |-> "2001:db8::"] >>] }

\* records no branch of the callback decodes: a kind it does not try, known
\* kinds whose bytes do not decode, and a nil record
OtherAttrs ==
    { [typeUrl |-> "AtomicAggregateAttribute", ok |-> TRUE],
      [typeUrl |-> "OriginAttribute", ok |-> FALSE],
      [typeUrl |-> "", ok |-> FALSE] }

Attrs ==
    NextHopAttrs \cup OriginAttrs \cup MedAttrs \cup LocalPrefAttrs
    \cup AggregatorAttrs \cup CommunitiesAttrs \cup ExtendedCommunitiesAttrs
    \cup LargeCommunitiesAttrs \cup AsPathAttrs \cup MpReachAttrs
    \cup MpUnreachAttrs \cup OtherAttrs

AttrLists == UNION { [1..n -> Attrs] : n \in 0..MaxAttrs }

\* path.Nlri: nil, an api.IPAddressPrefix (PrefixLen is a uint32), or a
\* reachability record of another type
Nlris ==
    { [typeUrl |-> "", ok |-> FALSE],
      [typeUrl |-> "IPAddressPrefix", ok |-> TRUE, PrefixLen |-> 24, Prefix |-> "10.0.0.0"],
      [typeUrl |-> "IPAddressPrefix", ok |-> TRUE, PrefixLen |-> 300, Prefix |-> "not-an-ip"],
      [typeUrl |-> "LabeledIPAddressPrefix", ok |-> TRUE] }

\* path.Validation: nil, or a message with its State
Validations == { nil } \cup { Some([State |-> c]) : c \in 0..3 }

\* the rest of an api.Path beside its attribute list: IsWithdraw, Nlri,
\* Validation and Age (nil, or a timestamp with its Seconds)
Envelopes ==
    { [IsWithdraw |-> FALSE, Nlri |-> n, Validation |-> Some([State |-> 0]),
       Age |-> Some([Seconds |-> 1700000000])] : n \in Nlris }
    \cup
    { [IsWithdraw |-> FALSE,
       Nlri |-> [typeUrl |-> "IPAddressPrefix", ok |-> TRUE, PrefixLen |-> 24, Prefix |-> "10.0.0.0"],
       Validation |-> v, Age |-> nil] : v \in Validations }
    \cup
    { [IsWithdraw |-> TRUE, Nlri |-> n, Validation |-> nil, Age |-> nil] :
        n \in { [typeUrl |-> "", ok |-> FALSE],
                [typeUrl |-> "IPAddressPrefix", ok |-> TRUE, PrefixLen |-> 24, Prefix |-> "10.0.0.0"] } }

MkPath(e, attrs) ==
    [NeighborIp |-> "192.168.1.89", Age |-> e.Age, IsWithdraw |-> e.IsWithdraw,
     Pattrs |-> attrs, Nlri |-> e.Nlri, Validation |-> e.Validation]

Paths == { MkPath(e, attrs) : e \in Envelopes, attrs \in AttrLists }

\* the generated getters of a protobuf message are nil-safe: on a nil
\* message they return the zero value
GetSeconds(age) == IF age = nil THEN 0 ELSE age[1].Seconds
GetState(validation) == IF validation = nil THEN 0 ELSE validation[1].State

(***************************************************************************)
(* The callback of MonitorPrefixes: one BGPUpdateMessage per path.         *)
(***************************************************************************)
\* var update BGPUpdateMessage, the metadata and the zero/empty
\* initializations
NewUpdate(path) ==
    [ WithdrawnRoutesLength |-> 0,
      WithdrawnRoutes |-> <<>>,
      TotalPathAttributeLength |-> 0,
      Origin |-> nil,
      ASPath |-> <<>>,
      NextHop |-> Some(<<>>),
      MED |-> nil,
      LocalPref |-> nil,
      AtomicAggregate |-> FALSE,
      AggregatorAS |-> nil,
      AggregatorAddress |-> nil,
      Communities |-> <<>>,
      CommunityStrings |-> <<>>,
      ExtendedCommunities |-> <<>>,
      LargeCommunities |-> <<>>,
      RPKIValidationState |-> nil,
      MPReachNLRI |-> [AFI |-> 0, SAFI |-> 0, NextHop |-> nil, NLRIs |-> <<>>],
      MPUnreachNLRI |-> [AFI |-> 0, SAFI |-> 0, NLRIs |-> <<>>],
      NLRI |-> <<>>,
      IsWithdraw |-> path.IsWithdraw,
      FromPeer |-> path.NeighborIp,
      Timestamp |-> GetSeconds(path.Age) ]

\* the strings appended for the communities of one attribute
RECURSIVE CommunityStringsOf(_)
CommunityStringsOf(cs) ==
    IF cs = <<>> THEN <<>>
    ELSE LET c == Head(cs)
             asn == c \div 65536
             local == c % 65536
         IN  <<Sprintf(asn, local)>> \o CommunityStringsOf(Tail(cs))

\* the values appended for the extended communities of one attribute
RECURSIVE ExtendedValuesOf(_)
ExtendedValuesOf(cs) ==
    IF cs = <<>> THEN <<>>
    ELSE (IF Head(cs) # nil THEN <<Head(cs)[1]>> ELSE <<>>)
         \o ExtendedValuesOf(Tail(cs))

\* the triples appended for the large communities of one attribute
LargeTriplesOf(cs) ==
    [i \in 1..Len(cs) |-> <<cs[i].GlobalAdmin, cs[i].LocalData1, cs[i].LocalData2>>]

\* the segments appended for one AS_PATH attribute
SegmentNumbersOf(segments) ==
    [i \in 1..Len(segments) |-> segments[i].Numbers]

\* DecodeNextHop with the error of UnmarshalTo ignored: a record of another
\* kind leaves nh at its zero value and its empty NextHop is parsed
DecodeNextHop_ErrIgnored(update, attr) ==
    [update EXCEPT !.NextHop =
        ParseIP(IF UnmarshalTo(attr, "NextHopAttribute") THEN attr.NextHop ELSE "")]

DecodeNextHop(update, attr) ==
    IF UnmarshalTo(attr, "NextHopAttribute")
    THEN [update EXCEPT !.NextHop = ParseIP(attr.NextHop)]
    ELSE update

DecodeOrigin(update, attr) ==
    IF UnmarshalTo(attr, "OriginAttribute")
    THEN [update EXCEPT !.Origin = Some(Uint8(attr.Origin))]
    ELSE update

\* DecodeMed with zero taken for "no value"
DecodeMed_ZeroIsAbsent(update, attr) ==
    IF UnmarshalTo(attr, "MultiExitDiscAttribute") /\ attr.Med # 0
    THEN [update EXCEPT !.MED = Some(attr.Med)]
    ELSE update

DecodeMed(update, attr) ==
    IF UnmarshalTo(attr, "MultiExitDiscAttribute")
    THEN [update EXCEPT !.MED = Some(attr.Med)]
    ELSE update

\* DecodeLocalPref also storing its value in the MED field
DecodeLocalPref_AlsoMed(update, attr) ==
    IF UnmarshalTo(attr, "LocalPrefAttribute")
    THEN [update EXCEPT !.LocalPref = Some(attr.LocalPref), !.MED = Some(attr.LocalPref)]
    ELSE update

DecodeLocalPref(update, attr) ==
    IF UnmarshalTo(attr, "LocalPrefAttribute")
    THEN [update EXCEPT !.LocalPref = Some(attr.LocalPref)]
    ELSE update

DecodeAggregator(update, attr) ==
    IF UnmarshalTo(attr, "AggregatorAttribute")
    THEN [update EXCEPT !.AggregatorAS = Some(attr.Asn),
                        !.AggregatorAddress = ParseIP(attr.Address)]
    ELSE update

DecodeCommunities(update, attr) ==
    IF UnmarshalTo(attr, "CommunitiesAttribute")
    THEN [update EXCEPT !.Communities = attr.Communities,
                        !.CommunityStrings = @ \o CommunityStringsOf(attr.Communities)]
    ELSE update

DecodeExtendedCommunities(update, attr) ==
    IF UnmarshalTo(attr, "ExtendedCommunitiesAttribute")
    THEN [update EXCEPT !.ExtendedCommunities = @ \o ExtendedValuesOf(attr.ExtCommunities)]
    ELSE update

DecodeLargeCommunities(update, attr) ==
    IF UnmarshalTo(attr, "LargeCommunitiesAttribute")
    THEN [update EXCEPT !.LargeCommunities = @ \o LargeTriplesOf(attr.LargeCommunities)]
    ELSE update

\* DecodeAsPath assigning the segments of the attribute instead of appending
DecodeAsPath_Assigned(update, attr) ==
    IF UnmarshalTo(attr, "AsPathAttribute")
    THEN [update EXCEPT !.ASPath = SegmentNumbersOf(attr.Segments)]
    ELSE update

DecodeAsPath(update, attr) ==
    IF UnmarshalTo(attr, "AsPathAttribute")
    THEN [update EXCEPT !.ASPath = @ \o SegmentNumbersOf(attr.Segments)]
    ELSE update

\* the body of "for _, attr := range path.GetPattrs()": nine independent
\* if statements, each tried on the attribute in this order
DecodeAttr(update, attr) ==
    DecodeAsPath(
     DecodeLargeCommunities(
      DecodeExtendedCommunities(
       DecodeCommunities(
        DecodeAggregator(
         DecodeLocalPref(
          DecodeMed(
           DecodeOrigin(
            DecodeNextHop(update, attr), attr), attr), attr), attr), attr), attr), attr), attr)

\* the attribute loop over the first n attributes
RECURSIVE ExtractAttributes(_, _, _)
ExtractAttributes(update, attrs, n) ==
    IF n = 0 THEN update
    ELSE DecodeAttr(ExtractAttributes(update, attrs, n - 1), attrs[n])

\* "Extract NLRI"
ExtractNLRI(update, path) ==
    IF UnmarshalTo(path.Nlri, "IPAddressPrefix")
    THEN [update EXCEPT !.NLRI = Append(@, [PrefixLength |-> Uint8(path.Nlri.PrefixLen),
                                            Prefix |-> ParseIP(path.Nlri.Prefix)])]
    ELSE update

\* "RPKI validation state": the switch on path.GetValidation().GetState()
MapValidationState(update, path) ==
    LET state == GetState(path.Validation)
    IN  CASE state = RpkiValid -> [update EXCEPT !.RPKIValidationState = Some("valid")]
          [] state = RpkiInvalid -> [update EXCEPT !.RPKIValidationState = Some("invalid")]
          [] state = RpkiNotFound -> [update EXCEPT !.RPKIValidationState = Some("not-found")]
          [] OTHER -> update

\* the record the callback has built for a path when it marshals it
BuildUpdate(path) ==
    MapValidationState(
        ExtractNLRI(
            ExtractAttributes(NewUpdate(path), path.Pattrs, Len(path.Pattrs)),
            path),
        path)

(***************************************************************************)
(* The program: main (cmd/main.go) bootstraps the service and starts the   *)
(* monitor in a goroutine; the engine then delivers events to the callback.*)
(***************************************************************************)
VARIABLES
    mainPc,      \* where main is: "LoadConfig", "Start", "AddNeighbor",
                 \* "GoMonitor", "Blocked" (select {}) or "Fatal" (log.Fatalf)
    server,      \* the engine: "new", "serving" (Serve runs, StartBgp has not
                 \* succeeded), "running" or "stopped"
    monitorPc,   \* the MonitorPrefixes goroutine: "none", "called", "returned"
    watching,    \* whether WatchEvent has registered the callback
    cbPc,        \* the callback: "idle", or "loop" inside "range table.Paths"
    remaining,   \* paths of the current event the loop has not reached yet
    path,        \* the path of the current iteration, nil outside one
    update,      \* the record built in the current iteration, nil outside one
    sink,        \* what the last line written to the log is
    trace,       \* history: the calls of the bootstrap and what they returned
    inv          \* the callback invocations the engine has in flight, when it
                 \* runs several at once (used by SpecConcurrent only)

vars == <<mainPc, server, monitorPc, watching, cbPc, remaining, path, update, sink,
          trace, inv>>

\* the events the engine hands to the callback: r.GetTable() is nil (a peer
\* event) or a table event with its paths
Events ==
    { [Table |-> nil] } \cup { [Table |-> Some([NPaths |-> n])] : n \in 0..MaxPaths }

\* the names of the callback invocations that can be in flight at once
Slots == 1..NumCallbacks

\* the paths delivered to invocations that run at once: an announcement with
\* a communities and an AS-path attribute and validation state 2, and a
\* withdrawal without attributes and with a validation state the switch
\* does not know
ConcurrentPaths ==
    { MkPath([IsWithdraw |-> FALSE,
              Nlri |-> [typeUrl |-> "IPAddressPrefix", ok |-> TRUE, PrefixLen |-> 24, Prefix |-> "10.0.0.0"],
              Validation |-> Some([State |-> 2]), Age |-> nil],
             << [typeUrl |-> "CommunitiesAttribute", ok |-> TRUE, Communities |-> <<131082>>],
                [typeUrl |-> "AsPathAttribute", ok |-> TRUE,
                 Segments |-> << [Numbers |-> <<65001, 65002>>], [Numbers |-> <<65003>>] >>] >>),
      MkPath([IsWithdraw |-> TRUE, Nlri |-> [typeUrl |-> "", ok |-> FALSE],
              Validation |-> Some([State |-> 3]), Age |-> nil],
             << >>) }

\* an invocation slot with no call in it
IdleInvocation ==
    [pc |-> "idle", npaths |-> 0, remaining |-> 0, lines |-> 0, line |-> "",
     path |-> nil, i |-> 0, update |-> nil]

Init ==
    /\ mainPc = "LoadConfig"
    /\ server = "new"
    /\ monitorPc = "none"
    /\ watching = FALSE
    /\ cbPc = "idle"
    /\ remaining = 0
    /\ path = nil
    /\ update = nil
    /\ sink = ""
    /\ trace = <<>>
    /\ inv = [s \in Slots |-> IdleInvocation]

\* main: config, err := pkg.LoadConfig(...); log.Fatalf on error
LoadConfig ==
    /\ mainPc = "LoadConfig"
    /\ \E err \in BOOLEAN :
         IF err
         THEN mainPc' = "Fatal" /\ sink' = "Failed to load configuration"
              /\ trace' = Append(trace, "LoadConfig:err")
         ELSE mainPc' = "Start" /\ sink' = sink
              /\ trace' = Append(trace, "LoadConfig:nil")
    /\ UNCHANGED <<server, monitorPc, watching, cbPc, remaining, path, update, inv>>

\* Start with the error of StartBgp dropped
StartReturns_ErrDropped(rejected) == FALSE

\* what Start returns: the error of StartBgp if there is one, nil otherwise
\* (TRUE stands for a non-nil error)
StartReturns(rejected) == rejected

\* main: bgpService.Start(...): go s.server.Serve(), then StartBgp, which
\* the engine accepts or rejects; log.Fatalf when Start returns an error
Start ==
    /\ mainPc = "Start"
    /\ \E rejected \in BOOLEAN :
         /\ server' = IF rejected THEN "serving" ELSE "running"
         /\ IF StartReturns(rejected)
            THEN /\ mainPc' = "Fatal"
                 /\ sink' = "Failed to start BGP server"
                 /\ trace' = Append(trace, "Start:err")
            ELSE /\ mainPc' = "AddNeighbor"
                 /\ sink' = sink
                 /\ trace' = Append(trace, "Start:nil")
    /\ UNCHANGED <<monitorPc, watching, cbPc, remaining, path, update, inv>>

\* main: bgpService.AddNeighbor(...), which returns AddPeer's error;
\* log.Fatalf on error
AddNeighbor ==
    /\ mainPc = "AddNeighbor"
    /\ \E err \in BOOLEAN :
         IF err
         THEN mainPc' = "Fatal" /\ sink' = "Failed to add neighbor"
              /\ trace' = Append(trace, "AddNeighbor:err")
         ELSE mainPc' = "GoMonitor" /\ sink' = sink
              /\ trace' = Append(trace, "AddNeighbor:nil")
    /\ UNCHANGED <<server, monitorPc, watching, cbPc, remaining, path, update, inv>>

\* main: go bgpService.MonitorPrefixes(), then select {}
GoMonitor ==
    /\ mainPc = "GoMonitor"
    /\ mainPc' = "Blocked"
    /\ monitorPc' = "called"
    /\ trace' = Append(trace, "go MonitorPrefixes")
    /\ UNCHANGED <<server, watching, cbPc, remaining, path, update, sink, inv>>

\* MonitorPrefixes subscribing again after a failed WatchEvent: the first
\* error is logged and the call repeated
MonitorPrefixes_Retry ==
    /\ monitorPc = "called"
    /\ mainPc # "Fatal"
    /\ \E err \in BOOLEAN :
         IF err
         THEN /\ watching' = FALSE
              /\ sink' = "Error watching events"
              /\ trace' = trace \o <<"WatchEvent:err", "log:Error watching events">>
              /\ monitorPc' = IF \E k \in 1..Len(trace) : trace[k] = "WatchEvent:err"
                              THEN "returned" ELSE "called"
         ELSE /\ watching' = TRUE
              /\ sink' = sink
              /\ trace' = Append(trace, "WatchEvent:nil")
              /\ monitorPc' = "returned"
    /\ UNCHANGED <<mainPc, server, cbPc, remaining, path, update, inv>>

\* MonitorPrefixes: s.server.WatchEvent(ctx, request, callback) either
\* refuses the subscription with an error, or registers the callback with
\* the engine, which from then on calls it from its own goroutine, and
\* returns nil; MonitorPrefixes logs the error if there is one and returns
MonitorPrefixes ==
    /\ monitorPc = "called"
    /\ mainPc # "Fatal"
    /\ \E err \in BOOLEAN :
         IF err
         THEN /\ watching' = FALSE
              /\ sink' = "Error watching events"
              /\ trace' = trace \o <<"WatchEvent:err", "log:Error watching events">>
         ELSE /\ watching' = TRUE
              /\ sink' = sink
              /\ trace' = Append(trace, "WatchEvent:nil")
    /\ monitorPc' = "returned"
    /\ UNCHANGED <<mainPc, server, cbPc, remaining, path, update, inv>>

\* Stop: s.server.Stop(), called by the owner of the service
Stop ==
    /\ mainPc # "Fatal"
    /\ server \in {"serving", "running"}
    /\ server' = "stopped"
    /\ UNCHANGED <<mainPc, monitorPc, watching, cbPc, remaining, path, update, sink,
                   trace, inv>>

\* the engine calls the callback with an event: without a table the
\* callback returns at once, with one it enters the loop over table.Paths
DeliverEvent ==
    /\ watching
    /\ mainPc # "Fatal"
    /\ server = "running"
    /\ cbPc = "idle"
    /\ \E r \in Events :
         IF r.Table # nil /\ r.Table[1].NPaths > 0
         THEN cbPc' = "loop" /\ remaining' = r.Table[1].NPaths
         ELSE cbPc' = "idle" /\ remaining' = 0
    /\ UNCHANGED <<mainPc, server, monitorPc, watching, path, update, sink, trace, inv>>

\* json.MarshalIndent(update, "", "  ") and the log line that follows it:
\* every field of BGPUpdateMessage has a JSON encoding, so err is nil
LogUpdate(u) == "BGP Update JSON"

\* one iteration of the loop: build the record of the next path and log it
ProcessPath ==
    /\ cbPc = "loop"
    /\ mainPc # "Fatal"
    /\ path = nil
    /\ remaining > 0
    /\ \E p \in Paths :
         /\ path' = Some(p)
         /\ update' = Some(BuildUpdate(p))
         /\ sink' = LogUpdate(BuildUpdate(p))
    /\ remaining' = remaining - 1
    /\ UNCHANGED <<mainPc, server, monitorPc, watching, cbPc, trace, inv>>

\* the end of an iteration: its path and update go out of scope, and after
\* the last path the callback returns
EndIteration ==
    /\ cbPc = "loop"
    /\ mainPc # "Fatal"
    /\ path # nil
    /\ path' = nil
    /\ update' = nil
    /\ cbPc' = IF remaining = 0 THEN "idle" ELSE "loop"
    /\ UNCHANGED <<mainPc, server, monitorPc, watching, remaining, sink, trace, inv>>

Next ==
    \/ LoadConfig
    \/ Start
    \/ AddNeighbor
    \/ GoMonitor
    \/ MonitorPrefixes
    \/ Stop
    \/ DeliverEvent
    \/ ProcessPath
    \/ EndIteration

Spec == Init /\ [][Next]_vars

(***************************************************************************)
(* The callback under concurrent invocation.  The engine may call the      *)
(* callback for several events at once; each invocation runs the loop over *)
(* its own table.Paths statement by statement, interleaved with the        *)
(* others.  update is declared inside the loop body, so every iteration of *)
(* every invocation has its own; the log is the one thing they share.      *)
(***************************************************************************)
\* var update BGPUpdateMessage kept at package level: what the switch on the
\* validation state does not assign stays as the last record left it
FreshUpdate_PackageLevel(s, p) ==
    IF \E t \in Slots : inv[t].update # nil
    THEN [NewUpdate(p) EXCEPT !.RPKIValidationState =
            inv[CHOOSE t \in Slots : inv[t].update # nil].update[1].RPKIValidationState]
    ELSE NewUpdate(p)

\* the record an iteration of invocation s starts from
FreshUpdate(s, p) == NewUpdate(p)

\* the line the iteration writes after json.MarshalIndent: the record, or
\* the marshalling error
LogLine(err) ==
    IF err THEN "Error marshalling update to JSON" ELSE "BGP Update JSON"

\* the marshalling error dropped without a line
LinesWritten_ErrorSilent(err) == IF err THEN 0 ELSE 1

\* the lines an iteration writes to the log: one in either branch
LinesWritten(err) == 1

\* the engine calls the callback in slot s with an event
Invoke(s) ==
    /\ watching
    /\ mainPc # "Fatal"
    /\ server = "running"
    /\ inv[s].pc = "idle"
    /\ \E r \in Events :
         LET n == IF r.Table = nil THEN 0 ELSE r.Table[1].NPaths
         IN  inv' = [inv EXCEPT ![s] =
                        [IdleInvocation EXCEPT !.pc = IF n > 0 THEN "loop" ELSE "idle",
                                               !.npaths = n, !.remaining = n]]
    /\ UNCHANGED <<mainPc, server, monitorPc, watching, cbPc, remaining, path, update,
                   sink, trace>>

\* invocation s enters the loop body for its next path: the new record and
\* its metadata and zero/empty initializations
BeginPath(s) ==
    /\ inv[s].pc = "loop"
    /\ inv[s].remaining > 0
    /\ \E p \in ConcurrentPaths :
         inv' = [inv EXCEPT ![s].pc = "decode",
                            ![s].remaining = @ - 1,
                            ![s].path = Some(p),
                            ![s].i = 0,
                            ![s].update = Some(FreshUpdate(s, p))]
    /\ UNCHANGED <<mainPc, server, monitorPc, watching, cbPc, remaining, path, update,
                   sink, trace>>

\* invocation s decodes the next attribute of its path
DecodeStep(s) ==
    /\ inv[s].pc = "decode"
    /\ inv[s].i < Len(inv[s].path[1].Pattrs)
    /\ inv' = [inv EXCEPT ![s].i = @ + 1,
                          ![s].update =
                              Some(DecodeAttr(@[1], inv[s].path[1].Pattrs[inv[s].i + 1]))]
    /\ UNCHANGED <<mainPc, server, monitorPc, watching, cbPc, remaining, path, update,
                   sink, trace>>

\* invocation s finishes its path: NLRI, validation state, json.MarshalIndent
\* and the log line; the loop then goes on, whatever MarshalIndent returned
FinishPath(s) ==
    /\ inv[s].pc = "decode"
    /\ inv[s].i = Len(inv[s].path[1].Pattrs)
    /\ \E err \in BOOLEAN :
         /\ inv' = [inv EXCEPT ![s].pc = "loop",
                               ![s].update =
                                   Some(MapValidationState(
                                           ExtractNLRI(@[1], inv[s].path[1]),
                                           inv[s].path[1])),
                               ![s].lines = @ + LinesWritten(err),
                               ![s].line = IF LinesWritten(err) > 0 THEN LogLine(err) ELSE @]
         /\ sink' = IF LinesWritten(err) > 0 THEN LogLine(err) ELSE sink
    /\ UNCHANGED <<mainPc, server, monitorPc, watching, cbPc, remaining, path, update,
                   trace>>

\* the loop of invocation s has no path left: the callback returns
Return(s) ==
    /\ inv[s].pc = "loop"
    /\ inv[s].remaining = 0
    /\ inv' = [inv EXCEPT ![s].pc = "idle"]
    /\ UNCHANGED <<mainPc, server, monitorPc, watching, cbPc, remaining, path, update,
                   sink, trace>>

NextConcurrent ==
    \/ LoadConfig
    \/ Start
    \/ AddNeighbor
    \/ GoMonitor
    \/ MonitorPrefixes
    \/ Stop
    \/ \E s \in Slots : Invoke(s)
    \/ \E s \in Slots : BeginPath(s)
    \/ \E s \in Slots : DecodeStep(s)
    \/ \E s \in Slots : FinishPath(s)
    \/ \E s \in Slots : Return(s)

SpecConcurrent == Init /\ [][NextConcurrent]_vars

(***************************************************************************)
(* Properties of the record built for a path.  In a state where an         *)
(* iteration has built its record, path is the input and update the record.*)
(***************************************************************************)
Built == path # nil /\ update # nil

\* the rendering "{raw >> 16}:{raw & 0xFFFF}" of a community
Rendering(raw) == ToString(raw \div 65536) \o ":" \o ToString(raw % 65536)

\* whether the attribute list carries a decodable attribute of a kind
Carries(attrs, kind) == \E i \in 1..Len(attrs) : UnmarshalTo(attrs[i], kind)

\* the last attribute of a kind in the list
LastOf(attrs, kind) ==
    attrs[CHOOSE i \in 1..Len(attrs) :
            /\ UnmarshalTo(attrs[i], kind)
            /\ \A j \in (i + 1)..Len(attrs) : ~UnmarshalTo(attrs[j], kind)]

\* C1: in every built record communities and communityStrings have the same
\* length and communityStrings[i] is the rendering of communities[i], for
\* any attribute list, also one with several communities attributes.
C1_CommunityStringsParallel ==
    Built =>
        LET u == update[1]
        IN  /\ Len(u.Communities) = Len(u.CommunityStrings)
            /\ \A i \in 1..Len(u.Communities) :
                 u.CommunityStrings[i] = Rendering(u.Communities[i])

\* the state the claim gives a validation code, absent for no validation
ClaimedRpkiState(validation) ==
    IF validation = nil THEN nil
    ELSE CASE validation[1].State = 0 -> Some("valid")
           [] validation[1].State = 1 -> Some("not-found")
           [] validation[1].State = 2 -> Some("invalid")
           [] OTHER -> nil

\* C2: rpkiValidationState is valid, not-found or invalid exactly when the
\* engine reported code 0, 1 or 2, and absent otherwise: for any other code
\* and when the event carries no validation state.
C2_RpkiStateMatchesCode ==
    Built => update[1].RPKIValidationState = ClaimedRpkiState(path[1].Validation)

\* the routes an event withdraws: the prefix of its reachability record,
\* when the event is a withdrawal
WithdrawnRoutesOf(p) ==
    IF p.IsWithdraw /\ UnmarshalTo(p.Nlri, "IPAddressPrefix")
    THEN << [PrefixLength |-> Uint8(p.Nlri.PrefixLen), Prefix |-> ParseIP(p.Nlri.Prefix)] >>
    ELSE <<>>

\* C3: for an event with isWithdraw = true and a non-empty list of withdrawn
\* routes, the built record has isWithdraw = true and withdrawnRoutes equal
\* to that list, element for element.
C3_WithdrawnRoutesCopied ==
    (Built /\ path[1].IsWithdraw /\ WithdrawnRoutesOf(path[1]) # <<>>) =>
        /\ update[1].IsWithdraw
        /\ update[1].WithdrawnRoutes = WithdrawnRoutesOf(path[1])

\* C4: in every built record aggregatorAS and aggregatorAddress are both
\* present or both absent, also when the aggregator's address does not parse.
C4_AggregatorPair ==
    Built => ((update[1].AggregatorAS = nil) <=> (update[1].AggregatorAddress = nil))

\* C5: origin, med, localPref and aggregatorAS are present exactly when an
\* attribute of their kind occurred in the list, then with the value of the
\* last one (a value 0 is present, not absent), and a sequence field with no
\* attribute of its kind is empty.
C5_PresentIffAttribute ==
    Built =>
        LET u == update[1]
            attrs == path[1].Pattrs
        IN  /\ u.Origin =
                 IF Carries(attrs, "OriginAttribute")
                 THEN Some(LastOf(attrs, "OriginAttribute").Origin % 256) ELSE nil
            /\ u.MED =
                 IF Carries(attrs, "MultiExitDiscAttribute")
                 THEN Some(LastOf(attrs, "MultiExitDiscAttribute").Med) ELSE nil
            /\ u.LocalPref =
                 IF Carries(attrs, "LocalPrefAttribute")
                 THEN Some(LastOf(attrs, "LocalPrefAttribute").LocalPref) ELSE nil
            /\ u.AggregatorAS =
                 IF Carries(attrs, "AggregatorAttribute")
                 THEN Some(LastOf(attrs, "AggregatorAttribute").Asn) ELSE nil
            /\ ~Carries(attrs, "AggregatorAttribute") => u.AggregatorAddress = nil
            /\ ~Carries(attrs, "NextHopAttribute") => u.NextHop = Some(<<>>)
            /\ ~Carries(attrs, "CommunitiesAttribute") =>
                 u.Communities = <<>> /\ u.CommunityStrings = <<>>
            /\ ~Carries(attrs, "ExtendedCommunitiesAttribute") => u.ExtendedCommunities = <<>>
            /\ ~Carries(attrs, "LargeCommunitiesAttribute") => u.LargeCommunities = <<>>
            /\ ~Carries(attrs, "AsPathAttribute") => u.ASPath = <<>>
            /\ ~UnmarshalTo(path[1].Nlri, "IPAddressPrefix") => u.NLRI = <<>>

\* a record built from an origin attribute of value 0 and a MED attribute of
\* value 0, with no local-pref and no aggregator attribute
C5_Witness ==
    /\ Built
    /\ update[1].Origin = Some(0)
    /\ update[1].MED = Some(0)
    /\ update[1].LocalPref = nil
    /\ update[1].AggregatorAS = nil
    /\ update[1].ASPath = <<>>

\* the attribute records that match no kind the callback tries
MatchesNoKind(attr) == \A k \in 1..Len(KnownKinds) : ~UnmarshalTo(attr, KnownKinds[k])

InsertAt(s, pos, x) == SubSeq(s, 1, pos) \o <<x>> \o SubSeq(s, pos + 1, Len(s))
RemoveAt(s, pos) == SubSeq(s, 1, pos - 1) \o SubSeq(s, pos + 1, Len(s))

\* C6: an attribute record that matches no known kind, at any position of
\* the list, leaves the built record as it is without that record: inserting
\* one into the list of the path, or removing one from it, builds the same
\* record.
C6_UnknownAttributeIgnored ==
    Built =>
        LET p == path[1]
        IN  /\ \A pos \in 0..Len(p.Pattrs) :
                 \A x \in { a \in Attrs : MatchesNoKind(a) } :
                   BuildUpdate([p EXCEPT !.Pattrs = InsertAt(p.Pattrs, pos, x)]) = update[1]
            /\ \A pos \in 1..Len(p.Pattrs) :
                 MatchesNoKind(p.Pattrs[pos]) =>
                   BuildUpdate([p EXCEPT !.Pattrs = RemoveAt(p.Pattrs, pos)]) = update[1]

\* a record built from a list that holds an unknown record before a known one
C6_Witness ==
    /\ Built
    /\ Len(path[1].Pattrs) = 2
    /\ MatchesNoKind(path[1].Pattrs[1])
    /\ path[1].Pattrs[1].typeUrl = "AtomicAggregateAttribute"
    /\ update[1].ASPath # <<>>

\* the prefix records of a multiprotocol attribute
PrefixRecordsOf(nlris) ==
    [i \in 1..Len(nlris) |->
        [PrefixLength |-> Uint8(nlris[i].PrefixLen), Prefix |-> ParseIP(nlris[i].Prefix)]]

\* C7: for an event with a multiprotocol reach (or unreach) record, the built
\* record's mpReachNLRI (mpUnreachNLRI) holds the record's address family,
\* subsequent address family, next hop (reach only) and prefix records.
C7_MultiprotocolExtracted ==
    Built =>
        \A i \in 1..Len(path[1].Pattrs) :
            LET a == path[1].Pattrs[i]
            IN  /\ UnmarshalTo(a, "MpReachNLRIAttribute") =>
                     update[1].MPReachNLRI =
                        [AFI |-> a.Family.Afi, SAFI |-> a.Family.Safi,
                         NextHop |-> ParseIP(a.NextHops[1]),
                         NLRIs |-> PrefixRecordsOf(a.Nlris)]
                /\ UnmarshalTo(a, "MpUnreachNLRIAttribute") =>
                     update[1].MPUnreachNLRI =
                        [AFI |-> a.Family.Afi, SAFI |-> a.Family.Safi,
                         NLRIs |-> PrefixRecordsOf(a.Nlris)]

\* the segments of the AS_PATH attributes of a list, in list order
RECURSIVE SegmentsInOrder(_)
SegmentsInOrder(attrs) ==
    IF attrs = <<>> THEN <<>>
    ELSE LET a == Head(attrs)
         IN  (IF UnmarshalTo(a, "AsPathAttribute")
              THEN [i \in 1..Len(a.Segments) |-> a.Segments[i].Numbers]
              ELSE <<>>)
             \o SegmentsInOrder(Tail(attrs))

\* C8: asPath is the sequence of the segments of the AS-path attribute(s) in
\* attribute-list order, each with its AS numbers in their order: nothing is
\* dropped, duplicated or reordered.
C8_AsPathPreserved ==
    Built => update[1].ASPath = SegmentsInOrder(path[1].Pattrs)

\* a record built from two AS-path attributes of two segments each
C8_Witness ==
    /\ Built
    /\ Len(update[1].ASPath) = 4
    /\ update[1].ASPath[1] = <<65001, 65002>>
    /\ update[1].ASPath[3] = <<>>

\* C9: after Start and AddNeighbor have succeeded and the subscription is
\* established, MonitorPrefixes does not return while the engine is running.
C9_MonitorDoesNotReturn ==
    (mainPc = "Blocked" /\ watching /\ server = "running") => monitorPc # "returned"

\* the fields of the record that belong to an attribute kind
KindFields(kind) ==
    CASE kind = "NextHopAttribute" -> {"NextHop"}
      [] kind = "OriginAttribute" -> {"Origin"}
      [] kind = "MultiExitDiscAttribute" -> {"MED"}
      [] kind = "LocalPrefAttribute" -> {"LocalPref"}
      [] kind = "AggregatorAttribute" -> {"AggregatorAS", "AggregatorAddress"}
      [] kind = "CommunitiesAttribute" -> {"Communities", "CommunityStrings"}
      [] kind = "ExtendedCommunitiesAttribute" -> {"ExtendedCommunities"}
      [] kind = "LargeCommunitiesAttribute" -> {"LargeCommunities"}
      [] kind = "AsPathAttribute" -> {"ASPath"}

\* the fields the n-th attribute record of a path changed in the record
ChangedBy(p, n) ==
    LET before == ExtractAttributes(NewUpdate(p), p.Pattrs, n - 1)
        after == ExtractAttributes(NewUpdate(p), p.Pattrs, n)
    IN  { f \in DOMAIN before : after[f] # before[f] }

\* the fields of the first kind, in trial order, that a record matches
FirstMatchFields(attr) ==
    IF MatchesNoKind(attr) THEN {}
    ELSE KindFields(KnownKinds[
            CHOOSE k \in 1..Len(KnownKinds) :
                /\ UnmarshalTo(attr, KnownKinds[k])
                /\ \A j \in 1..(k - 1) : ~UnmarshalTo(attr, KnownKinds[j])])

\* C10: each attribute record is bound to at most one kind, the first in the
\* trial order that it matches: it changes fields of that kind only and
\* leaves the fields of every other kind untouched.
C10_BoundToOneKind ==
    Built =>
        \A n \in 1..Len(path[1].Pattrs) :
            ChangedBy(path[1], n) \subseteq FirstMatchFields(path[1].Pattrs[n])

\* a record whose second attribute, an aggregator, set both aggregator fields
\* after a local-pref attribute had set localPref
C10_Witness ==
    /\ Built
    /\ Len(path[1].Pattrs) = 2
    /\ ChangedBy(path[1], 1) = {"LocalPref"}
    /\ ChangedBy(path[1], 2) = {"AggregatorAS", "AggregatorAddress"}

(***************************************************************************)
(* Properties of concurrent invocations, of the bootstrap and of the log.  *)
(***************************************************************************)
\* whether invocation s has finished the path it holds
Finished(s) == inv[s].update # nil /\ inv[s].pc # "decode"

\* C11: with the callback invoked concurrently, in any interleaving, the
\* record of each path is the record built from that path alone: while an
\* invocation decodes it holds what its own attributes so far give, once it
\* has logged it holds BuildUpdate of its path, and two invocations that
\* finished the same path hold identical records.
C11_RecordsIndependent ==
    /\ \A s \in Slots :
         inv[s].update # nil =>
            LET p == inv[s].path[1]
            IN  inv[s].update[1] =
                   IF inv[s].pc = "decode"
                   THEN ExtractAttributes(NewUpdate(p), p.Pattrs, inv[s].i)
                   ELSE BuildUpdate(p)
    /\ \A s, t \in Slots :
         (Finished(s) /\ Finished(t) /\ inv[s].path = inv[t].path) =>
            inv[s].update = inv[t].update

\* two invocations in flight at once: one has finished the second path of
\* its event, a path with two attributes, while the other is half way
\* through decoding the same path as the second path of its own event
C11_Witness ==
    \E s, t \in Slots :
        /\ s # t
        /\ Finished(s) /\ inv[s].npaths = 2 /\ inv[s].remaining = 0
        /\ Len(inv[s].path[1].Pattrs) = 2
        /\ inv[t].pc = "decode" /\ inv[t].i = 1
        /\ inv[t].path = inv[s].path
        /\ inv[t].npaths = 2 /\ inv[t].remaining = 0

\* how often an entry occurs in the trace
Count(entry) == Cardinality({ k \in 1..Len(trace) : trace[k] = entry })

\* C12: the monitor is started only after Start and then AddNeighbor have
\* returned without error, in that order; Start returns an error exactly
\* when the engine rejected StartBgp; and after an error of a bootstrap step
\* the process has aborted: that step is the last one and no monitoring runs.
C12_BootstrapOrder ==
    /\ (monitorPc # "none" \/ watching \/ cbPc # "idle" \/ path # nil) =>
          /\ Len(trace) >= 4
          /\ SubSeq(trace, 1, 4) =
                <<"LoadConfig:nil", "Start:nil", "AddNeighbor:nil", "go MonitorPrefixes">>
    /\ Count("Start:err") > 0 <=> server = "serving"
    /\ Count("Start:nil") > 0 <=> server \in {"running", "stopped"}
    /\ mainPc = "Fatal" <=>
          (trace # <<>> /\ trace[Len(trace)] \in
                {"LoadConfig:err", "Start:err", "AddNeighbor:err"})
    /\ mainPc = "Fatal" =>
          /\ monitorPc = "none" /\ ~watching /\ cbPc = "idle" /\ path = nil
          /\ Count("go MonitorPrefixes") = 0

\* the engine rejected StartBgp, Start returned the error and main aborted
C12_Witness ==
    /\ mainPc = "Fatal"
    /\ server = "serving"
    /\ trace = <<"LoadConfig:nil", "Start:err">>

\* C13: every path of every delivered event gets exactly one output, the
\* rendered record or the rendering-error line; after a failure the loop
\* goes on with the next path, and the callback returns only when every path
\* of its event has its line.
C13_OneOutputPerPath ==
    \A s \in Slots :
        /\ inv[s].lines =
              inv[s].npaths - inv[s].remaining - (IF inv[s].pc = "decode" THEN 1 ELSE 0)
        /\ inv[s].pc = "idle" => inv[s].lines = inv[s].npaths
        /\ inv[s].lines > 0 =>
              inv[s].line \in {"BGP Update JSON", "Error marshalling update to JSON"}
        /\ inv[s].lines = 0 => inv[s].line = ""

\* an invocation decoding the second path of its event after the rendering
\* of the first one failed
C13_Witness ==
    \E s \in Slots :
        /\ inv[s].pc = "decode"
        /\ inv[s].npaths = 2
        /\ inv[s].lines = 1
        /\ inv[s].line = "Error marshalling update to JSON"

\* C14: when WatchEvent returns an error, MonitorPrefixes logs it exactly
\* once and returns; the subscription is not tried again and no event is
\* processed afterwards.
C14_WatchFailureLoggedOnce ==
    /\ Count("WatchEvent:err") + Count("WatchEvent:nil") <= 1
    /\ Count("log:Error watching events") = Count("WatchEvent:err")
    /\ Count("WatchEvent:err") > 0 =>
          /\ monitorPc = "returned"
          /\ ~watching
          /\ cbPc = "idle" /\ path = nil /\ update = nil
          /\ sink = "Error watching events"

\* the subscription failed while the engine was running
C14_Witness ==
    /\ Count("WatchEvent:err") = 1
    /\ monitorPc = "returned"
    /\ server = "running"
    /\ sink = "Error watching events"

====
